---- MODULE Spec2Model ----
(***************************************************************************)
(* Model of nih-dbus-tool/marshal.c: the generator of C code that marshals *)
(* a D-Bus type from native variables onto a D-Bus message iterator.       *)
(*                                                                         *)
(* A C string (a variable name, a signature) is a sequence of characters;  *)
(* a C type name is a sequence of tokens; a code fragment is a sequence of *)
(* lines, each line the format line of the source with its arguments and   *)
(* its indentation level; a TypeVar is a record of a type and a name; a    *)
(* NihList of TypeVar is a sequence of them.                               *)
(***************************************************************************)
EXTENDS Integers, Sequences, FiniteSets, TLC

(***************************************************************************)
(* Bounds of the model.                                                    *)
(***************************************************************************)
\* largest number of nodes of a signature tree handed to marshal()
MaxNodes == 4
\* largest number of members of a struct
MaxMembers == 2
\* the fallible (allocating) call that may fail is among the first MaxFailAt
MaxFailAt == 40

(***************************************************************************)
(* Strings.                                                                *)
(***************************************************************************)
Str_iter == <<"_", "i", "t", "e", "r">>
Str_i == <<"_", "i">>
Str_element == <<"_", "e", "l", "e", "m", "e", "n", "t">>
Str_len == <<"_", "l", "e", "n">>
Str_item == <<"_", "i", "t", "e", "m">>

DigitChar == <<"0", "1", "2", "3", "4", "5", "6", "7", "8", "9">>

\* printf's %zu conversion of a size_t
RECURSIVE FormatZu(_)
FormatZu(n) ==
    IF n < 10 THEN <<DigitChar[n + 1]>>
    ELSE FormatZu(n \div 10) \o <<DigitChar[(n % 10) + 1]>>

\* ! strncmp (s, prefix, strlen (prefix))
HasPrefix(s, prefix) ==
    /\ Len(s) >= Len(prefix)
    /\ SubSeq(s, 1, Len(prefix)) = prefix

\* s + strlen (prefix)
Suffix(s, prefix) == SubSeq(s, Len(prefix) + 1, Len(s))

(***************************************************************************)
(* Signatures: the tree a DBusSignatureIter walks.  kind is the D-Bus type *)
(* code: "i" int32, "s" string, "a" array, "r" struct, "e" dict entry,     *)
(* "v" variant.                                                            *)
(***************************************************************************)
Node(k, ks) == [kind |-> k, kids |-> ks]

BasicKinds == {"i", "s"}

dbus_type_is_basic(t) == t \in BasicKinds

dbus_type_is_fixed(t) == t = "i"

\* dbus_signature_iter_get_current_type
dbus_signature_iter_get_current_type(iter) == iter.kind

RECURSIVE JoinSignatures(_, _)
RECURSIVE dbus_signature_iter_get_signature(_)
\* dbus_signature_iter_get_signature: the signature string of the type
dbus_signature_iter_get_signature(iter) ==
    CASE iter.kind = "a" ->
            <<"a">> \o dbus_signature_iter_get_signature(iter.kids[1])
      [] iter.kind = "r" ->
            <<"(">> \o JoinSignatures(iter.kids, 1) \o <<")">>
      [] iter.kind = "e" ->
            <<"{">> \o JoinSignatures(iter.kids, 1) \o <<"}">>
      [] OTHER -> <<iter.kind>>

JoinSignatures(kids, k) ==
    IF k > Len(kids) THEN <<>>
    ELSE dbus_signature_iter_get_signature(kids[k]) \o JoinSignatures(kids, k + 1)

RECURSIVE SigsOfSize(_)
RECURSIVE MemberSeqs(_, _)
\* the valid signatures of exactly n nodes whose root may stand anywhere
SigsOfSize(n) ==
    IF n = 1 THEN {Node(k, <<>>) : k \in BasicKinds \cup {"v"}}
    ELSE {Node("a", <<x>>) : x \in SigsOfSize(n - 1)}
         \cup (IF n >= 4
               THEN {Node("a", <<Node("e", <<Node(k, <<>>), v>>)>>) :
                        k \in BasicKinds, v \in SigsOfSize(n - 3)}
               ELSE {})
         \cup UNION {{Node("r", ms) : ms \in MemberSeqs(n - 1, c)} :
                        c \in 1..MaxMembers}

\* the sequences of exactly c members of total nodes
MemberSeqs(total, c) ==
    IF c = 0 THEN (IF total = 0 THEN {<<>>} ELSE {})
    ELSE UNION {{<<x>> \o rest : x \in SigsOfSize(j),
                                 rest \in MemberSeqs(total - j, c - 1)} :
                   j \in 1..(total - (c - 1))}

Signatures == UNION {SigsOfSize(n) : n \in 1..MaxNodes}

(***************************************************************************)
(* The collaborators of marshal.c: type.c, indent.c, nih/list.c.           *)
(***************************************************************************)
\* type_const: the name of the D-Bus type constant
type_const(dbus_type) ==
    CASE dbus_type = "i" -> <<"DBUS_TYPE_INT32">>
      [] dbus_type = "s" -> <<"DBUS_TYPE_STRING">>
      [] dbus_type = "a" -> <<"DBUS_TYPE_ARRAY">>
      [] dbus_type = "r" -> <<"DBUS_TYPE_STRUCT">>
      [] dbus_type = "e" -> <<"DBUS_TYPE_DICT_ENTRY">>
      [] OTHER -> <<"DBUS_TYPE_VARIANT">>

\* type_to_pointer: "T" becomes "T *"
type_to_pointer(type) == type \o <<"*">>

\* type_to_const: what a pointer type points to becomes const, any other
\* type is left alone: "char *" becomes "const char *" (the const is kept
\* after the tokens it qualifies)
type_to_const(type) ==
    IF Len(type) = 0 \/ type[Len(type)] # "*" THEN type
    ELSE IF Len(type) > 1 /\ type[Len(type) - 1] = "const" THEN type
    ELSE SubSeq(type, 1, Len(type) - 1) \o <<"const", "*">>

\* type_of: the C type of the type at the iterator
RECURSIVE type_of(_)
type_of(iter) ==
    CASE iter.kind = "i" -> <<"int32_t">>
      [] iter.kind = "s" -> <<"char", "*">>
      [] iter.kind = "a" -> type_to_pointer(type_of(iter.kids[1]))
      [] iter.kind \in {"r", "e"} ->
            <<"struct">> \o dbus_signature_iter_get_signature(iter) \o <<"*">>
      [] OTHER -> <<"NihDBusVariant", "*">>

\* type_var_new
type_var_new(type, name) == [type |-> type, name |-> name]

\* indent: every line of the block is level deeper
indent(block, level) ==
    [k \in 1..Len(block) |-> [block[k] EXCEPT !.ind = @ + level]]

\* nih_list_add: the entry becomes the last of the list
nih_list_add(list, entry) == Append(list, entry)

\* one line of generated code, from its format and arguments
Line(op, args) == [ind |-> 0, op |-> op, args |-> args]

(***************************************************************************)
(* The allocator and the trace of calls.  env.n counts the fallible calls  *)
(* made so far, env.f is the one that fails (0: none), env.log records the *)
(* arguments each function was entered with.                               *)
(***************************************************************************)
Fails(env, k) == env.f > env.n /\ env.f <= env.n + k

Alloc(env, k) == [env EXCEPT !.n = @ + k]

Enter(env, fn, parent, iter, iter_name, name, oom_error_code, inputs, locals) ==
    [env EXCEPT !.log = Append(@,
        [fn |-> fn, parent |-> parent, iter |-> iter, iter_name |-> iter_name,
         name |-> name, oom_error_code |-> oom_error_code,
         inputs |-> inputs, locals |-> locals])]

\* return NULL: everything allocated so far is freed, and each TypeVar freed
\* leaves the list it was in
ReturnNull(inputs, locals, env) ==
    [st |-> "null", code |-> <<>>, parent |-> "NULL",
     inputs |-> inputs, locals |-> locals, env |-> [env EXCEPT !.n = env.f]]

\* a failed nih_assert: abort ()
Abort(inputs, locals, env) ==
    [st |-> "abort", code |-> <<>>, parent |-> "NULL",
     inputs |-> inputs, locals |-> locals, env |-> env]

Return(code, parent, inputs, locals, env) ==
    [st |-> "ok", code |-> code, parent |-> parent,
     inputs |-> inputs, locals |-> locals, env |-> env]

\* oom_error_block: the copy of oom_error_code, indented one level
OomErrorBlock(oom_error_code) == indent(oom_error_code, 1)

(***************************************************************************)
(* The lines of generated code, by the format that writes them.            *)
(***************************************************************************)
\* "if (! dbus_message_iter_append_basic (&%s, %s, &%s)) {" oom "}"
AppendBasicCode(c_type, iter_name, dbus_const, name, oom_error_block) ==
    <<Line("comment_basic", <<c_type>>),
      Line("if_not_append_basic", <<iter_name, dbus_const, name>>)>>
    \o oom_error_block
    \o <<Line("end_if", <<>>)>>

\* "if (! dbus_message_iter_open_container (&%s, %s, %s, &%s)) {" oom "}" ""
OpenContainerCode(comment, iter_name, dbus_const, signature, sub_iter_name, oom_error_block) ==
    <<Line(comment, <<>>),
      Line("if_not_open_container",
           <<iter_name, dbus_const, signature, sub_iter_name>>)>>
    \o oom_error_block
    \o <<Line("end_if", <<>>), Line("blank", <<>>)>>

CloseContainerUnguarded(iter_name, sub_iter_name, oom_error_block) ==
    <<Line("if_not_close_container", <<iter_name, sub_iter_name>>),
      Line("end_if", <<>>)>>

CloseContainerSwapped(iter_name, sub_iter_name, oom_error_block) ==
    <<Line("if_not_close_container", <<sub_iter_name, iter_name>>)>>
    \o oom_error_block
    \o <<Line("end_if", <<>>)>>

\* "if (! dbus_message_iter_close_container (&%s, &%s)) {" oom "}"
CloseContainerCode(iter_name, sub_iter_name, oom_error_block) ==
    <<Line("if_not_close_container", <<iter_name, sub_iter_name>>)>>
    \o oom_error_block
    \o <<Line("end_if", <<>>)>>

\* "for (size_t %s = 0; %s < %s; %s++) {" or "for (size_t %s = 0; %s[%s]; %s++) {"
ForLine(element_type, name, loop_name, len_name) ==
    IF dbus_type_is_fixed(element_type)
    THEN Line("for_len", <<loop_name, loop_name, len_name, loop_name>>)
    ELSE Line("for_null", <<loop_name, name, loop_name, loop_name>>)

\* "%s %s;"
DeclLine(var) == Line("decl", <<var.type, var.name>>)

VarsBlock(element_locals) ==
    [k \in 1..Len(element_locals) |-> DeclLine(element_locals[k])]

\* "%s = %s[%s];"
ElementAssignLine(input_name, var_name, loop_name) ==
    Line("assign_index", <<input_name, var_name, loop_name>>)

\* "%s = %s->item%zu%s;"
ItemAssignLine(input_name, name, count, suffix) ==
    Line("assign_item", <<input_name, name, FormatZu(count), suffix>>)

(***************************************************************************)
(* marshal_basic                                                           *)
(***************************************************************************)
BasicInputTypeNotConst(iter) == type_of(iter)

\* c_type: the C type of the value, made const
BasicInputType(iter) == type_to_const(type_of(iter))

marshal_basic(parent, iter, iter_name, name, oom_error_code, inputs, locals, env0) ==
    LET env == Enter(env0, "marshal_basic", parent, iter, iter_name, name,
                     oom_error_code, inputs, locals)
        dbus_type == dbus_signature_iter_get_current_type(iter)
        dbus_const == type_const(dbus_type)
        oom_error_block == OomErrorBlock(oom_error_code)
        c_type == BasicInputType(iter)
        code == AppendBasicCode(c_type, iter_name, dbus_const, name,
                                oom_error_block)
        var == type_var_new(c_type, name)
    IN  \* nih_strdup, indent, type_of, type_to_const, nih_strcat_sprintf,
        \* type_var_new
        IF Fails(env, 6) THEN ReturnNull(inputs, locals, env)
        ELSE Return(code, parent, nih_list_add(inputs, var), locals,
                    Alloc(env, 6))

(***************************************************************************)
(* marshal: the dispatcher, and the array and struct generators that call  *)
(* it for the types they contain.                                          *)
(***************************************************************************)
RECURSIVE marshal(_, _, _, _, _, _, _, _)
RECURSIVE marshal_array(_, _, _, _, _, _, _, _)
RECURSIVE marshal_struct(_, _, _, _, _, _, _, _)
RECURSIVE ElementInputsLoop(_, _, _, _, _, _)
RECURSIVE ItemInputsLoop(_, _, _, _, _, _)
RECURSIVE StructItemsLoop(_, _, _, _, _, _)

DispatchEntryUnhandled(dbus_type) ==
    IF dbus_type_is_basic(dbus_type) THEN "marshal_basic"
    ELSE IF dbus_type = "a" THEN "marshal_array"
    ELSE IF dbus_type = "r" THEN "marshal_struct"
    ELSE "nih_assert_not_reached"

\* the branch marshal () takes for the type at the iterator
Dispatch(dbus_type) ==
    IF dbus_type_is_basic(dbus_type) THEN "marshal_basic"
    ELSE IF dbus_type = "a" THEN "marshal_array"
    ELSE IF dbus_type = "r" \/ dbus_type = "e" THEN "marshal_struct"
    ELSE "nih_assert_not_reached"

marshal(parent, iter, iter_name, name, oom_error_code, inputs, locals, env0) ==
    LET env == Enter(env0, "marshal", parent, iter, iter_name, name,
                     oom_error_code, inputs, locals)
        dbus_type == dbus_signature_iter_get_current_type(iter)
        target == Dispatch(dbus_type)
    IN  CASE target = "marshal_basic" ->
                marshal_basic(parent, iter, iter_name, name, oom_error_code,
                              inputs, locals, env)
          [] target = "marshal_array" ->
                marshal_array(parent, iter, iter_name, name, oom_error_code,
                              inputs, locals, env)
          [] target = "marshal_struct" ->
                marshal_struct(parent, iter, iter_name, name, oom_error_code,
                               inputs, locals, env)
          [] OTHER -> Abort(inputs, locals, env)

PromoteTypeNotConst(type) == type_to_pointer(type)

\* var_type: one more level of pointer than the element's input, made const
PromoteType(type) == type_to_const(type_to_pointer(type))

ArrayInputNameKeepElement(name, element_name, input_name) == input_name

\* var_name: our own name, with the suffix the element's input has after
\* the element's name
ArrayInputName(name, element_name, input_name) ==
    name \o Suffix(input_name, element_name)

\* the loop over element_inputs; acc holds inputs, block, element_locals
ElementInputsLoop(element_inputs, k, name, element_name, loop_name, acc) ==
    IF k > Len(element_inputs) THEN acc
    ELSE LET input_var == element_inputs[k]
             var_name == ArrayInputName(name, element_name, input_var.name)
             var == type_var_new(PromoteType(input_var.type), var_name)
         IN  \* nih_strdup, type_to_pointer, type_to_const
             IF Fails(acc.env, 3) THEN [acc EXCEPT !.st = "null"]
             ELSE IF ~HasPrefix(input_var.name, element_name)
                  THEN [acc EXCEPT !.st = "abort"]
             \* nih_sprintf, type_var_new, nih_strcat_sprintf
             ELSE IF Fails(Alloc(acc.env, 3), 3) THEN [acc EXCEPT !.st = "null"]
             ELSE ElementInputsLoop(element_inputs, k + 1, name, element_name,
                      loop_name,
                      [st |-> "ok",
                       inputs |-> nih_list_add(acc.inputs, var),
                       block |-> Append(acc.block,
                                    ElementAssignLine(input_var.name, var_name,
                                                      loop_name)),
                       element_locals |-> nih_list_add(acc.element_locals,
                                                       input_var),
                       env |-> Alloc(acc.env, 6)])

ArrayHasLenAlways(element_type) == TRUE

\* "When iterating a fixed type, we get an extra length input"
ArrayHasLen(element_type) == dbus_type_is_fixed(element_type)

ArrayCodeElementFirst(open, for, vars_block, block, element_block, close) ==
    open \o <<for>>
    \o indent(vars_block, 1) \o <<Line("blank", <<>>)>>
    \o indent(element_block, 1) \o <<Line("blank", <<>>)>>
    \o indent(block, 1)
    \o <<Line("end_for", <<>>), Line("blank", <<>>)>> \o close

\* the code of marshal_array, in the order it is concatenated
ArrayCode(open, for, vars_block, block, element_block, close) ==
    open \o <<for>>
    \o indent(vars_block, 1) \o <<Line("blank", <<>>)>>
    \o indent(block, 1) \o <<Line("blank", <<>>)>>
    \o indent(element_block, 1)
    \o <<Line("end_for", <<>>), Line("blank", <<>>)>> \o close

marshal_array(parent, iter, iter_name, name, oom_error_code, inputs, locals, env0) ==
    LET env == Enter(env0, "marshal_array", parent, iter, iter_name, name,
                     oom_error_code, inputs, locals)
        array_iter_name == name \o Str_iter
        loop_name == name \o Str_i
        element_name == name \o Str_element
        len_name == name \o Str_len
        oom_error_block == OomErrorBlock(oom_error_code)
        subiter == iter.kids[1]
        element_type == dbus_signature_iter_get_current_type(subiter)
        signature == dbus_signature_iter_get_signature(subiter)
        open == OpenContainerCode("comment_array", iter_name,
                    type_const("a"), signature, array_iter_name,
                    oom_error_block)
        array_iter_var == type_var_new(<<"DBusMessageIter">>, array_iter_name)
        locals1 == nih_list_add(locals, array_iter_var)
        for == ForLine(element_type, name, loop_name, len_name)
        \* 4 nih_sprintf, nih_strdup, indent, nih_strcat_sprintf,
        \* type_var_new, nih_strcat_sprintf
        env1 == Alloc(env, 9)
        element == marshal("NULL", subiter, array_iter_name, element_name,
                           oom_error_code, <<>>, <<>>, env1)
        loop == ElementInputsLoop(element.inputs, 1, name, element_name,
                    loop_name,
                    [st |-> "ok", inputs |-> inputs, block |-> <<>>,
                     element_locals |-> element.locals, env |-> element.env])
        vars_block == VarsBlock(loop.element_locals)
        \* one nih_strcat_sprintf for each of element_locals
        env2 == Alloc(loop.env, Len(loop.element_locals))
        \* 3 indent, 2 nih_strcat_sprintf
        env3 == Alloc(env2, 5)
        code == ArrayCode(open, for, vars_block, loop.block, element.code,
                    CloseContainerCode(iter_name, array_iter_name,
                                       oom_error_block))
    IN  IF Fails(env, 9) THEN ReturnNull(inputs, locals, env)
        ELSE IF element.st = "abort" THEN Abort(inputs, locals, element.env)
        ELSE IF element.st = "null" THEN ReturnNull(inputs, locals, element.env)
        ELSE IF loop.st = "abort" THEN Abort(inputs, locals, loop.env)
        ELSE IF loop.st = "null" THEN ReturnNull(inputs, locals, loop.env)
        ELSE IF Fails(loop.env, Len(loop.element_locals) + 5)
             THEN ReturnNull(inputs, locals, loop.env)
        ELSE IF ArrayHasLen(element_type)
             THEN \* type_var_new
                  IF Fails(env3, 1) THEN ReturnNull(inputs, locals, env3)
                  ELSE Return(code, parent,
                           nih_list_add(loop.inputs,
                                        type_var_new(<<"size_t">>, len_name)),
                           locals1, Alloc(env3, 1))
        ELSE Return(code, parent, loop.inputs, locals1, env3)

\* item_name: "%s_item%zu"
ItemName(name, count) == name \o Str_item \o FormatZu(count)

\* the loop over item_inputs: each becomes a local of the struct, set from
\* the member of the structure; acc holds code and locals
ItemInputsLoop(item_inputs, k, name, item_name, count, acc) ==
    IF k > Len(item_inputs) THEN acc
    ELSE LET input_var == item_inputs[k]
             suffix == Suffix(input_var.name, item_name)
         IN  IF ~HasPrefix(input_var.name, item_name)
             THEN [acc EXCEPT !.st = "abort"]
             \* nih_strcat_sprintf
             ELSE IF Fails(acc.env, 1) THEN [acc EXCEPT !.st = "null"]
             ELSE ItemInputsLoop(item_inputs, k + 1, name, item_name, count,
                      [st |-> "ok",
                       code |-> Append(acc.code,
                                   ItemAssignLine(input_var.name, name, count,
                                                  suffix)),
                       locals |-> nih_list_add(acc.locals, input_var),
                       env |-> Alloc(acc.env, 1)])

ItemCodeBeforeAssigns(code, assigns, item_code) ==
    code \o <<Line("blank", <<>>)>> \o item_code \o <<Line("blank", <<>>)>>
    \o assigns

\* the code of one member: the assignments, then "\n" item_code "\n"
ItemCode(code, assigns, item_code) ==
    code \o assigns
    \o <<Line("blank", <<>>)>> \o item_code \o <<Line("blank", <<>>)>>

ItemLocalsDropped(locals, item_locals) == locals

\* the loop over item_locals: each is appended to the locals of the struct
ItemLocals(locals, item_locals) == locals \o item_locals

\* the do ... while (dbus_signature_iter_next (&subiter)) loop; acc holds
\* code and locals
StructItemsLoop(kids, count, name, struct_iter_name, oom_error_code, acc) ==
    LET item_name == ItemName(name, count)
        \* nih_sprintf
        env1 == Alloc(acc.env, 1)
        item == marshal("NULL", kids[count + 1], struct_iter_name, item_name,
                        oom_error_code, <<>>, <<>>, env1)
        locals1 == ItemLocals(acc.locals, item.locals)
        loop == ItemInputsLoop(item.inputs, 1, name, item_name, count,
                    [st |-> "ok", code |-> <<>>, locals |-> locals1,
                     env |-> item.env])
        next == [st |-> "ok",
                 code |-> ItemCode(acc.code, loop.code, item.code),
                 locals |-> loop.locals,
                 \* nih_strcat_sprintf
                 env |-> Alloc(loop.env, 1)]
    IN  IF Fails(acc.env, 1) THEN [acc EXCEPT !.st = "null"]
        ELSE IF item.st # "ok" THEN [acc EXCEPT !.st = item.st, !.env = item.env]
        ELSE IF loop.st # "ok" THEN [acc EXCEPT !.st = loop.st, !.env = loop.env]
        ELSE IF Fails(loop.env, 1) THEN [acc EXCEPT !.st = "null"]
        \* nih_assert (++count > 0)
        ELSE IF ~(count + 1 > 0) THEN [acc EXCEPT !.st = "abort"]
        \* dbus_signature_iter_next
        ELSE IF count + 1 < Len(kids)
             THEN StructItemsLoop(kids, count + 1, name, struct_iter_name,
                                  oom_error_code, next)
        ELSE next

StructInputTypeNotConst(iter) == type_of(iter)

\* c_type: the C type of the structure, made const
StructInputType(iter) == type_to_const(type_of(iter))

marshal_struct(parent, iter, iter_name, name, oom_error_code, inputs, locals, env0) ==
    LET env == Enter(env0, "marshal_struct", parent, iter, iter_name, name,
                     oom_error_code, inputs, locals)
        dbus_type == dbus_signature_iter_get_current_type(iter)
        dbus_const == type_const(dbus_type)
        struct_iter_name == name \o Str_iter
        oom_error_block == OomErrorBlock(oom_error_code)
        c_type == StructInputType(iter)
        open == OpenContainerCode("comment_struct", iter_name, dbus_const,
                    <<"NULL">>, struct_iter_name, oom_error_block)
        struct_iter_var == type_var_new(<<"DBusMessageIter">>,
                                        struct_iter_name)
        \* nih_sprintf, nih_strdup, indent, type_of, type_to_const,
        \* nih_strcat_sprintf, type_var_new
        env1 == Alloc(env, 7)
        loop == StructItemsLoop(iter.kids, 0, name, struct_iter_name,
                    oom_error_code,
                    [st |-> "ok", code |-> open,
                     locals |-> nih_list_add(locals, struct_iter_var),
                     env |-> env1])
        code == loop.code \o CloseContainerCode(iter_name, struct_iter_name,
                                                oom_error_block)
        var == type_var_new(c_type, name)
    IN  IF Fails(env, 7) THEN ReturnNull(inputs, locals, env)
        ELSE IF loop.st = "abort" THEN Abort(inputs, locals, loop.env)
        ELSE IF loop.st = "null" THEN ReturnNull(inputs, locals, loop.env)
        \* nih_strcat_sprintf, type_var_new
        ELSE IF Fails(loop.env, 2) THEN ReturnNull(inputs, locals, loop.env)
        ELSE Return(code, parent, nih_list_add(inputs, var), loop.locals,
                    Alloc(loop.env, 2))

(***************************************************************************)
(* The state: one call of marshal () by the rest of nih-dbus-tool.         *)
(***************************************************************************)
VARIABLES
    pc,               \* "call": marshal () is about to run; then "return"
                      \* (a string was returned), "null" or "abort"
    parent,           \* the arguments of the call
    iter,
    iter_name,
    name,
    oom_error_code,
    inputs,           \* the caller's list of inputs
    locals,           \* the caller's list of locals
    fail_at,          \* the fallible call that fails for lack of memory
    code,             \* the string returned
    log,              \* the functions entered, with their arguments
    old_inputs,       \* the lists as they were when marshal () was called
    old_locals,
    own,              \* the nih_alloc objects and the NihLists of the run
    own_run,          \* the operations on them the run makes, in order
    own_step          \* how many of them have been made

vars == <<pc, parent, iter, iter_name, name, oom_error_code, inputs, locals,
          fail_at, code, log, old_inputs, old_locals, own, own_run, own_step>>

Names == {<<"v">>, <<"x", "_", "l", "e", "n">>}

IterNames == {<<"i", "t", "e", "r">>}

OomErrorCodes ==
    {<<Line("oom", <<<<"return -1;">>>>)>>,
     <<Line("oom", <<<<"nih_free (message);">>>>),
       Line("oom", <<<<"return NULL;">>>>)>>}

\* what the caller's lists hold before the call
CallerLists ==
    {[inputs |-> <<>>, locals |-> <<>>, parent |-> "NULL"],
     [inputs |-> <<type_var_new(<<"char", "const", "*">>, <<"v">>)>>,
      locals |-> <<type_var_new(<<"DBusMessageIter">>, <<"i", "t", "e", "r">>)>>,
      parent |-> "caller"]}

Init ==
    /\ pc = "call"
    /\ iter \in Signatures
    /\ iter_name \in IterNames
    /\ name \in Names
    /\ oom_error_code \in OomErrorCodes
    /\ \E l \in CallerLists :
          /\ inputs = l.inputs
          /\ locals = l.locals
          /\ parent = l.parent
    /\ fail_at \in 0..MaxFailAt
    /\ code = <<>>
    /\ log = <<>>
    /\ old_inputs = inputs
    /\ old_locals = locals
    /\ own = [objs |-> <<>>, lists |-> <<>>]
    /\ own_run = [ops |-> <<>>, st |-> "ok", ret |-> 0]
    /\ own_step = 0

\* the call of marshal (), whole
Result ==
    marshal(parent, iter, iter_name, name, oom_error_code, inputs, locals,
            [n |-> 0, f |-> fail_at, log |-> <<>>])

Finish(r) ==
    /\ pc' = (IF r.st = "ok" THEN "return" ELSE r.st)
    /\ code' = r.code
    /\ inputs' = r.inputs
    /\ locals' = r.locals
    /\ log' = r.env.log
    /\ UNCHANGED <<parent, iter, iter_name, name, oom_error_code, fail_at,
                   old_inputs, old_locals, own, own_run, own_step>>

MarshalBasic ==
    /\ pc = "call"
    /\ Dispatch(dbus_signature_iter_get_current_type(iter)) = "marshal_basic"
    /\ Finish(Result)

MarshalArray ==
    /\ pc = "call"
    /\ Dispatch(dbus_signature_iter_get_current_type(iter)) = "marshal_array"
    /\ Finish(Result)

MarshalStruct ==
    /\ pc = "call"
    /\ Dispatch(dbus_signature_iter_get_current_type(iter)) = "marshal_struct"
    /\ Finish(Result)

MarshalNotReached ==
    /\ pc = "call"
    /\ Dispatch(dbus_signature_iter_get_current_type(iter))
          = "nih_assert_not_reached"
    /\ Finish(Result)

Next ==
    \/ MarshalBasic
    \/ MarshalArray
    \/ MarshalStruct
    \/ MarshalNotReached

Spec == Init /\ [][Next]_vars

(***************************************************************************)
(* What the claims speak of.                                               *)
(***************************************************************************)
\* the entries the call appended to the caller's lists
AppendedInputs == SubSeq(inputs, Len(old_inputs) + 1, Len(inputs))
AppendedLocals == SubSeq(locals, Len(old_locals) + 1, Len(locals))

\* the lists still begin with what the caller had in them
CallerEntriesKept ==
    /\ Len(inputs) >= Len(old_inputs)
    /\ SubSeq(inputs, 1, Len(old_inputs)) = old_inputs
    /\ Len(locals) >= Len(old_locals)
    /\ SubSeq(locals, 1, Len(old_locals)) = old_locals

NoFailure == [n |-> 0, f |-> 0, log |-> <<>>]

\* the type at the iterator marshalled on its own, as a top-level call
\* with empty lists and no allocation failure
Alone(sig, an_iter_name, a_name) ==
    marshal("NULL", sig, an_iter_name, a_name, oom_error_code, <<>>, <<>>,
            NoFailure)

\* C1: after a call that returned code, the first entry appended to inputs
\* is named exactly the base name, every appended entry's name begins with
\* the base name, and the appended names are pairwise distinct.
C1_InputNames ==
    pc = "return" =>
        /\ CallerEntriesKept
        /\ Len(AppendedInputs) >= 1
        /\ AppendedInputs[1].name = name
        /\ \A j \in 1..Len(AppendedInputs) :
              HasPrefix(AppendedInputs[j].name, name)
        /\ \A j, k \in 1..Len(AppendedInputs) :
              j # k => AppendedInputs[j].name # AppendedInputs[k].name

\* an array of arrays down to a fixed type returned: two inputs, the second
\* one obtained by renaming an input of the element
C1_Witness ==
    /\ pc = "return"
    /\ iter.kind = "a"
    /\ iter.kids[1].kind = "a"
    /\ Len(AppendedInputs) = 2
    /\ AppendedInputs[2].name = name \o Str_len

\* C2: for an array, the inputs of the element marshalled on its own under
\* the name N_element are appended in the same order, each renamed to N
\* followed by its suffix and typed as a pointer to const of its type; they
\* come before the length input, and nothing else is appended.
C2_ArrayInputsFromElement ==
    (pc = "return" /\ iter.kind = "a") =>
        LET element_name == name \o Str_element
            e == Alone(iter.kids[1], name \o Str_iter, element_name).inputs
            m == Len(e)
        IN  /\ CallerEntriesKept
            /\ Len(AppendedInputs) \in {m, m + 1}
            /\ \A j \in 1..m :
                  /\ HasPrefix(e[j].name, element_name)
                  /\ AppendedInputs[j].name
                        = name \o SubSeq(e[j].name, Len(element_name) + 1,
                                         Len(e[j].name))
                  /\ AppendedInputs[j].type
                        = type_to_const(type_to_pointer(e[j].type))
            /\ Len(AppendedInputs) = m + 1 =>
                  AppendedInputs[m + 1]
                     = [type |-> <<"size_t">>, name |-> name \o Str_len]

\* an array whose element needs two inputs returned, with a length of its
\* own after them
C2_Witness ==
    /\ pc = "return"
    /\ iter.kind = "a"
    /\ Len(old_inputs) = 1
    /\ Len(Alone(iter.kids[1], name \o Str_iter, name \o Str_element).inputs) = 2
    /\ Len(AppendedInputs) = 2
    /\ AppendedInputs[1].type = <<"int32_t", "const", "*", "const", "*">>

HasLenInput == \E j \in 1..Len(AppendedInputs) :
                  AppendedInputs[j].name = name \o Str_len

\* C3 as claimed: the inputs of an array hold an entry named N_len if and
\* only if the immediate element type is fixed-size.
C3_LenIffElementFixed ==
    (pc = "return" /\ iter.kind = "a") =>
        (HasLenInput <=> dbus_type_is_fixed(iter.kids[1].kind))

\* an array, of any number of levels, ultimately of a fixed type
RECURSIVE UltimatelyFixed(_)
UltimatelyFixed(sig) ==
    /\ sig.kind = "a"
    /\ \/ dbus_type_is_fixed(sig.kids[1].kind)
       \/ UltimatelyFixed(sig.kids[1])

\* the type of the length input of an array of so many levels: size_t for
\* a fixed element, one more pointer to const for each level above it
RECURSIVE LenType(_)
LenType(sig) ==
    IF dbus_type_is_fixed(sig.kids[1].kind) THEN <<"size_t">>
    ELSE type_to_const(type_to_pointer(LenType(sig.kids[1])))

\* C3: the inputs of an array hold an entry named N_len if and only if the
\* array is, through any number of array levels, ultimately of a fixed
\* type: a size_t when the immediate element is fixed, the right number of
\* pointers to it otherwise; an array of strings or structs has none.
C3_LenIffUltimatelyFixed ==
    (pc = "return" /\ iter.kind = "a") =>
        /\ HasLenInput <=> UltimatelyFixed(iter)
        /\ \A j \in 1..Len(AppendedInputs) :
              AppendedInputs[j].name = name \o Str_len =>
                  AppendedInputs[j].type = LenType(iter)
        /\ iter.kids[1].kind \in {"s", "r", "e"} => ~HasLenInput

\* an array of arrays of a fixed type returned: its element is not fixed,
\* and it has a length input
C3_Witness ==
    /\ pc = "return"
    /\ iter.kind = "a"
    /\ iter.kids[1].kind = "a"
    /\ ~dbus_type_is_fixed(iter.kids[1].kind)
    /\ HasLenInput

\* C4: a struct or dict entry appends exactly one entry to inputs, the
\* const type of the whole structure under the base name, whatever its
\* members are.
C4_StructOneInput ==
    (pc = "return" /\ iter.kind \in {"r", "e"}) =>
        /\ CallerEntriesKept
        /\ AppendedInputs
              = <<[type |-> <<"struct">>
                              \o dbus_signature_iter_get_signature(iter)
                              \o <<"const", "*">>,
                   name |-> name]>>

\* a struct returned that has a member needing two inputs of its own
C4_Witness ==
    /\ pc = "return"
    /\ iter.kind = "r"
    /\ \E k \in 1..Len(iter.kids) :
          Len(Alone(iter.kids[k], name \o Str_iter, name).inputs) = 2
    /\ Len(AppendedInputs) = 1

RECURSIVE SumOver(_, _, _)
\* the sum of count[k] for k from lo to hi
SumOver(count, lo, hi) ==
    IF lo > hi THEN 0 ELSE count[lo] + SumOver(count, lo + 1, hi)

\* member k (from 1) of the struct at the iterator, marshalled on its own
Member(k) ==
    Alone(iter.kids[k], name \o Str_iter,
          name \o Str_item \o <<DigitChar[k]>>)

MemberInputCount == [k \in 1..Len(iter.kids) |-> Len(Member(k).inputs)]
MemberLocalCount == [k \in 1..Len(iter.kids) |-> Len(Member(k).locals)]

\* C5 as claimed: the number of locals a struct appends equals the number
\* of inputs its members need when each is marshalled on its own.
C5_LocalsAreMemberInputs ==
    (pc = "return" /\ iter.kind \in {"r", "e"}) =>
        Len(AppendedLocals) = SumOver(MemberInputCount, 1, Len(iter.kids))

\* C5: the locals a struct appends are its container iterator N_iter, then
\* as many as the inputs and the locals its members need when each is
\* marshalled on its own: one more than the inputs, plus the locals.
C5_LocalsAreIterAndMemberVars ==
    (pc = "return" /\ iter.kind \in {"r", "e"}) =>
        /\ CallerEntriesKept
        /\ Len(AppendedLocals)
              = 1 + SumOver(MemberInputCount, 1, Len(iter.kids))
                  + SumOver(MemberLocalCount, 1, Len(iter.kids))
        /\ AppendedLocals[1]
              = [type |-> <<"DBusMessageIter">>, name |-> name \o Str_iter]

\* a struct of an integer and a string returned, with three locals: more
\* than its two member values
C5_Witness ==
    /\ pc = "return"
    /\ iter = Node("r", <<Node("i", <<>>), Node("s", <<>>)>>)
    /\ Len(AppendedLocals) = 3
    /\ SumOver(MemberInputCount, 1, Len(iter.kids)) = 2

\* the lines of the code that test a call on the message iterator
GuardOps ==
    {"if_not_append_basic", "if_not_open_container", "if_not_close_container"}

RECURSIVE CountLines(_, _, _)
\* how many lines of the code from line k on have their op in ops
CountLines(lines, ops, k) ==
    IF k > Len(lines) THEN 0
    ELSE (IF lines[k].op \in ops THEN 1 ELSE 0) + CountLines(lines, ops, k + 1)

RECURSIVE CountNodes(_, _)
RECURSIVE CountNodesSeq(_, _, _)
\* how many nodes of the signature have their kind in kinds
CountNodes(sig, kinds) ==
    (IF sig.kind \in kinds THEN 1 ELSE 0) + CountNodesSeq(sig.kids, kinds, 1)
CountNodesSeq(kids, kinds, k) ==
    IF k > Len(kids) THEN 0
    ELSE CountNodes(kids[k], kinds) + CountNodesSeq(kids, kinds, k + 1)

\* C6: in the code returned, every test of an append, open or close is
\* followed by the lines of oom_error_code, one level deeper than the test,
\* and the end of the test; those lines stand nowhere else; and there are
\* as many tests as basic nodes plus twice the array, struct and entry
\* nodes of the signature.
C6_EveryWriterCallGuarded ==
    pc = "return" =>
        LET l == Len(oom_error_code)
        IN  /\ \A k \in 1..Len(code) :
                  code[k].op \in GuardOps =>
                      /\ k + l + 1 <= Len(code)
                      /\ \A j \in 1..l :
                            code[k + j]
                               = [oom_error_code[j] EXCEPT
                                     !.ind = @ + code[k].ind + 1]
                      /\ code[k + l + 1]
                            = [ind |-> code[k].ind, op |-> "end_if",
                               args |-> <<>>]
            /\ CountLines(code, {"oom"}, 1)
                  = l * CountLines(code, GuardOps, 1)
            /\ CountLines(code, GuardOps, 1)
                  = CountNodes(iter, {"i", "s"})
                    + 2 * CountNodes(iter, {"a", "r", "e"})

\* an array of dict entries returned, with a recovery of two lines: six
\* tests, twelve lines of recovery
C6_Witness ==
    /\ pc = "return"
    /\ iter.kind = "a"
    /\ iter.kids[1].kind = "e"
    /\ Len(oom_error_code) = 2
    /\ CountLines(code, GuardOps, 1) = 6
    /\ CountLines(code, {"oom"}, 1) = 12

\* C7: a basic type appends one entry to inputs, its const C type under the
\* base name, appends nothing to locals, and returns code with one append
\* to iter_name of the value, with one copy of the recovery.
C7_BasicOneInputOneAppend ==
    (pc = "return" /\ iter.kind \in {"i", "s"}) =>
        /\ CallerEntriesKept
        /\ AppendedInputs
              = <<[type |-> IF iter.kind = "i" THEN <<"int32_t">>
                            ELSE <<"char", "const", "*">>,
                   name |-> name]>>
        /\ locals = old_locals
        /\ CountLines(code, GuardOps, 1) = 1
        /\ \E k \in 1..Len(code) :
              /\ code[k].op = "if_not_append_basic"
              /\ code[k].args[1] = iter_name
              /\ code[k].args[3] = name
        /\ CountLines(code, {"oom"}, 1) = Len(oom_error_code)

\* a string returned, into lists that held entries of the caller
C7_Witness ==
    /\ pc = "return"
    /\ iter.kind = "s"
    /\ Len(old_inputs) = 1
    /\ Len(inputs) = 2
    /\ Len(locals) = 1

SupportedKinds == {"i", "s", "a", "r", "e"}

\* the generator that is to be entered for a type of a supported kind
GeneratorFor(kind) ==
    IF kind \in {"i", "s"} THEN "marshal_basic"
    ELSE IF kind = "a" THEN "marshal_array"
    ELSE "marshal_struct"

\* C8: every time marshal () is entered, at top level or from a generator,
\* with a basic type, an array, or a struct or dict entry at the iterator,
\* the basic, array or struct generator is entered next with the very same
\* arguments; with any other type at the iterator nothing more is entered,
\* the run aborts, and no code and no NULL is returned: a run that returned
\* code or NULL never had such a type at the iterator.
C8_DispatchOrAbort ==
    pc # "call" =>
        /\ Len(log) >= 1
        /\ log[1] = [fn |-> "marshal", parent |-> parent, iter |-> iter,
                     iter_name |-> iter_name, name |-> name,
                     oom_error_code |-> oom_error_code,
                     inputs |-> old_inputs, locals |-> old_locals]
        /\ \A k \in 1..Len(log) :
              log[k].fn = "marshal" =>
                  IF log[k].iter.kind \in SupportedKinds
                  THEN /\ k < Len(log)
                       /\ log[k + 1]
                             = [log[k] EXCEPT
                                   !.fn = GeneratorFor(log[k].iter.kind)]
                  ELSE /\ k = Len(log)
                       /\ pc = "abort"
                       /\ code = <<>>
                       /\ inputs = old_inputs
                       /\ locals = old_locals
        /\ pc = "abort" =>
              /\ log[Len(log)].fn = "marshal"
              /\ log[Len(log)].iter.kind \notin SupportedKinds

\* a run aborted at a variant met inside an array, although an allocation
\* was to fail later on
C8_Witness ==
    /\ pc = "abort"
    /\ iter.kind = "a"
    /\ Len(log) >= 3
    /\ log[Len(log)].iter.kind = "v"
    /\ fail_at > 0

RECURSIVE WellNested(_, _, _)
\* the appends, opens and closes of the lines from line k on are nested:
\* stack holds the iterators open, the innermost last; each call is on the
\* innermost, a close closes the innermost out of the one below it, and at
\* the end the stack is what it was
WellNested(lines, k, stack) ==
    IF k > Len(lines) THEN Len(stack) = 1
    ELSE LET line == lines[k]
             top == stack[Len(stack)]
         IN  CASE line.op = "if_not_append_basic" ->
                     /\ line.args[1] = top
                     /\ WellNested(lines, k + 1, stack)
               [] line.op = "if_not_open_container" ->
                     /\ line.args[1] = top
                     /\ WellNested(lines, k + 1, Append(stack, line.args[4]))
               [] line.op = "if_not_close_container" ->
                     /\ Len(stack) >= 2
                     /\ line.args[2] = top
                     /\ line.args[1] = stack[Len(stack) - 1]
                     /\ WellNested(lines, k + 1,
                                   SubSeq(stack, 1, Len(stack) - 1))
               [] OTHER -> WellNested(lines, k + 1, stack)

\* the lines of the code that test a call on the message iterator, in order
GuardLines == SelectSeq(code, LAMBDA line : line.op \in GuardOps)

\* C9: in the code returned the opens and closes are nested: a close names
\* the parent and the iterator of the open it matches, everything between
\* the two is on that iterator or on one opened in between, and what is
\* outside every container is on iter_name; the code of an array or struct
\* begins with the open of N_iter in iter_name and ends with its close.
C9_WriterCallsNested ==
    pc = "return" =>
        /\ WellNested(code, 1, <<iter_name>>)
        /\ iter.kind \in {"a", "r", "e"} =>
              /\ GuardLines[1].op = "if_not_open_container"
              /\ GuardLines[1].args[1] = iter_name
              /\ GuardLines[1].args[4] = name \o Str_iter
              /\ GuardLines[Len(GuardLines)].op = "if_not_close_container"
              /\ GuardLines[Len(GuardLines)].args
                    = <<iter_name, name \o Str_iter>>

\* code returned with three containers, one inside the other
C9_Witness ==
    /\ pc = "return"
    /\ iter.kind = "a"
    /\ iter.kids[1].kind = "r"
    /\ iter.kids[1].kids[1].kind = "a"
    /\ CountLines(code, {"if_not_open_container"}, 1) = 3
    /\ CountLines(code, {"if_not_close_container"}, 1) = 3

RECURSIVE ConcatParts(_, _, _)
\* part[lo] \o ... \o part[hi]
ConcatParts(part, lo, hi) ==
    IF lo > hi THEN <<>> ELSE part[lo] \o ConcatParts(part, lo + 1, hi)

BlankLine == [ind |-> 0, op |-> "blank", args |-> <<>>]

\* the assignments of the inputs of member k (from 1) from the members of
\* the structure
MemberAssigns(k) ==
    LET item_name == name \o Str_item \o <<DigitChar[k]>>
        item_inputs == Member(k).inputs
    IN  [j \in 1..Len(item_inputs) |->
            [ind |-> 0, op |-> "assign_item",
             args |-> <<item_inputs[j].name, name, <<DigitChar[k]>>,
                        SubSeq(item_inputs[j].name, Len(item_name) + 1,
                               Len(item_inputs[j].name))>>]]

\* C10: between the open and the close of a struct, the code is, member by
\* member in ascending order, the assignment of each input of the member
\* N_item<k><suffix> from N->item<k><suffix>, then the code of the member
\* marshalled on its own; and the locals appended after N_iter are, member
\* by member, the locals and the inputs of the member, unchanged.
C10_MembersAssignedThenMarshalled ==
    (pc = "return" /\ iter.kind \in {"r", "e"}) =>
        LET l == Len(oom_error_code)
            n == Len(iter.kids)
            body == SubSeq(code, l + 5, Len(code) - (l + 2))
            part == [k \in 1..n |->
                        MemberAssigns(k) \o <<BlankLine>> \o Member(k).code
                        \o <<BlankLine>>]
            moved == [k \in 1..n |-> Member(k).locals \o Member(k).inputs]
        IN  /\ \A k \in 1..n : \A j \in 1..Len(Member(k).inputs) :
                  HasPrefix(Member(k).inputs[j].name,
                            name \o Str_item \o <<DigitChar[k]>>)
            /\ body = ConcatParts(part, 1, n)
            /\ AppendedLocals
                  = <<[type |-> <<"DBusMessageIter">>,
                       name |-> name \o Str_iter]>>
                    \o ConcatParts(moved, 1, n)

\* a struct of two members returned, the second an array with two inputs
\* and a local of its own
C10_Witness ==
    /\ pc = "return"
    /\ iter.kind = "r"
    /\ Len(iter.kids) = 2
    /\ Len(Member(2).inputs) = 2
    /\ Len(Member(2).locals) = 1
    /\ Len(AppendedLocals) = 5

\* C11: an array appends one entry to locals, the container iterator N_iter;
\* between its open and its close the code is the for line, then, one level
\* deeper, the declarations of the locals and of the inputs of the element
\* marshalled on its own, the assignment of each such input
\* N_element<suffix> from N<suffix>[N_i], and the code of the element, then
\* the end of the loop.
C11_ElementVarsInsideLoop ==
    (pc = "return" /\ iter.kind = "a") =>
        LET l == Len(oom_error_code)
            element_name == name \o Str_element
            e == Alone(iter.kids[1], name \o Str_iter, element_name)
            declared == e.locals \o e.inputs
            body == SubSeq(code, l + 5, Len(code) - (l + 2))
            decls == [j \in 1..Len(declared) |->
                         [ind |-> 1, op |-> "decl",
                          args |-> <<declared[j].type, declared[j].name>>]]
            assigns == [j \in 1..Len(e.inputs) |->
                           [ind |-> 1, op |-> "assign_index",
                            args |-> <<e.inputs[j].name,
                                       name \o SubSeq(e.inputs[j].name,
                                                      Len(element_name) + 1,
                                                      Len(e.inputs[j].name)),
                                       name \o Str_i>>]]
            element_code == [k \in 1..Len(e.code) |->
                                [e.code[k] EXCEPT !.ind = @ + 1]]
        IN  /\ CallerEntriesKept
            /\ AppendedLocals
                  = <<[type |-> <<"DBusMessageIter">>,
                       name |-> name \o Str_iter]>>
            /\ Len(body) >= 3
            /\ body[1].op \in {"for_len", "for_null"}
            /\ body[1].ind = 0
            /\ SubSeq(body, 2, Len(body) - 2)
                  = decls \o <<BlankLine>> \o assigns \o <<BlankLine>>
                    \o element_code
            /\ SubSeq(body, Len(body) - 1, Len(body))
                  = <<[ind |-> 0, op |-> "end_for", args |-> <<>>], BlankLine>>

\* an array of arrays of a fixed type returned, into a list of locals that
\* held an entry of the caller: its element has a local and two inputs
C11_Witness ==
    /\ pc = "return"
    /\ iter.kind = "a"
    /\ iter.kids[1].kind = "a"
    /\ Len(old_locals) = 1
    /\ Len(Alone(iter.kids[1], name \o Str_iter, name \o Str_element).inputs) = 2
    /\ Len(Alone(iter.kids[1], name \o Str_iter, name \o Str_element).locals) = 1
    /\ Len(AppendedLocals) = 1

(***************************************************************************)
(* Ownership.  The objects of nih_alloc are numbered in the order they are *)
(* allocated: each has its parents and is live until freed.  A NihList is  *)
(* the sequence of the TypeVar objects in it; the lists are numbered too,  *)
(* and a list that is a local variable of a function is live until the     *)
(* function returns.  0 is NULL.                                           *)
(***************************************************************************)
Without(items, id) == SelectSeq(items, LAMBDA x : x # id)

\* nih_alloc with a parent, as nih_strcat_sprintf (&code, parent, ...) of a
\* NULL code and type_var_new (code, ...) do
OwnAlloc(heap, kind, parent_id) ==
    [heap EXCEPT !.objs =
        Append(@, [kind |-> kind,
                   parents |-> IF parent_id = 0 THEN {} ELSE {parent_id},
                   live |-> TRUE])]

\* nih_list_init of a list on the stack
OwnListInit(heap) ==
    [heap EXCEPT !.lists = Append(@, [items |-> <<>>, live |-> TRUE])]

\* nih_list_add: the entry leaves the list it is in and becomes the last
\* of the list
OwnListAdd(heap, id, list_id) ==
    [heap EXCEPT !.lists =
        [k \in 1..Len(@) |->
            [@[k] EXCEPT !.items = IF k = list_id
                                   THEN Append(Without(@, id), id)
                                   ELSE Without(@, id)]]]

\* nih_ref: the object has one more parent
OwnRef(heap, id, parent_id) ==
    [heap EXCEPT !.objs[id].parents = @ \cup {parent_id}]

\* nih_free: the object is freed; each child loses it as parent, and is
\* freed too when it has no other; a TypeVar freed leaves the list it is in
\* (its destructor is nih_list_destroy).  The children here are TypeVars,
\* which have no children.
OwnFree(heap, id) ==
    LET freed(k) ==
            \/ k = id
            \/ /\ heap.objs[k].live
               /\ heap.objs[k].parents = {id}
    IN  [objs |-> [k \in 1..Len(heap.objs) |->
                      IF freed(k)
                      THEN [heap.objs[k] EXCEPT !.live = FALSE,
                                                !.parents = {}]
                      ELSE [heap.objs[k] EXCEPT !.parents = @ \ {id}]],
         lists |-> [l \in 1..Len(heap.lists) |->
                      [heap.lists[l] EXCEPT
                          !.items = SelectSeq(@, LAMBDA x : ~freed(x))]]]

\* nih_discard, what leaving the scope of a nih_local variable does: the
\* object is freed if it has no parent
OwnDiscard(heap, id) ==
    IF heap.objs[id].parents = {} THEN OwnFree(heap, id) ELSE heap

\* the function returns: its lists on the stack are no more
OwnRelease(heap, list_id) ==
    [heap EXCEPT !.lists[list_id].live = FALSE]

OwnOp(op, id, arg, kind) == [op |-> op, id |-> id, arg |-> arg, kind |-> kind]

OwnApply(heap, o) ==
    CASE o.op = "alloc" -> OwnAlloc(heap, o.kind, o.arg)
      [] o.op = "list_init" -> OwnListInit(heap)
      [] o.op = "list_add" -> OwnListAdd(heap, o.id, o.arg)
      [] o.op = "ref" -> OwnRef(heap, o.id, o.arg)
      [] o.op = "free" -> OwnFree(heap, o.id)
      [] o.op = "discard" -> OwnDiscard(heap, o.id)
      [] OTHER -> OwnRelease(heap, o.id)

(***************************************************************************)
(* The run of marshal () as the operations it makes on the objects and the *)
(* lists, in order.  h is the run so far: the heap, the operations, "ok"   *)
(* or "null" (an allocation failed and the functions are returning NULL)   *)
(* or "abort", the value returned, and the count n of fallible places      *)
(* passed, of which the f-th fails (none when f is 0).                     *)
(***************************************************************************)
\* an operation that cannot fail, made while all is well
OwnDo(h, o) ==
    IF h.st # "ok" THEN h
    ELSE [h EXCEPT !.heap = OwnApply(@, o), !.ops = Append(@, o)]

\* an operation made on the way out too: nih_free (code) before return
\* NULL, and the end of the scope of a nih_local or of a list
OwnForce(h, o) ==
    IF h.st = "abort" THEN h
    ELSE [h EXCEPT !.heap = OwnApply(@, o), !.ops = Append(@, o)]

\* fallible calls that allocate strings only (nih_strdup, nih_sprintf,
\* indent, type_of, type_to_const, nih_strcat_sprintf onto an existing
\* string) with no operation on an object or a list between them
OwnTry(h) ==
    IF h.st # "ok" THEN h
    ELSE IF h.n + 1 = h.f THEN [h EXCEPT !.n = @ + 1, !.st = "null"]
    ELSE [h EXCEPT !.n = @ + 1]

\* a fallible call that allocates an object: the first nih_strcat_sprintf
\* (&code, parent, ...) or type_var_new (code, ...)
OwnTryAlloc(h, id, parent_id, kind) ==
    IF h.st # "ok" THEN h
    ELSE IF h.n + 1 = h.f THEN [h EXCEPT !.n = @ + 1, !.st = "null"]
    ELSE OwnDo([h EXCEPT !.n = @ + 1], OwnOp("alloc", id, parent_id, kind))

OwnNewId(h) == Len(h.heap.objs) + 1
OwnNewList(h) == Len(h.heap.lists) + 1

\* x == e in F(x), with e evaluated once
OwnLet(e, F(_)) == CHOOSE y \in {F(x) : x \in {e}} : TRUE

RECURSIVE OwnMarshal(_, _, _, _, _)
RECURSIVE OwnElementInputsLoop(_, _, _, _, _, _)
RECURSIVE OwnItemLocalsLoop(_, _, _, _, _)
RECURSIVE OwnItemInputsNotReferenced(_, _, _, _, _)
RECURSIVE OwnItemInputsLoop(_, _, _, _, _)
RECURSIVE OwnStructItemsLoop(_, _, _, _, _)

\* marshal_basic: code, and var, a child of code, added to inputs
OwnBasic(parent_id, sig, inputs_id, locals_id, h) ==
    OwnLet(OwnTry(h), LAMBDA h0 :
    OwnLet(OwnTryAlloc(h0, OwnNewId(h0), parent_id, "code"), LAMBDA h1 :
    OwnLet(OwnTryAlloc(h1, OwnNewId(h1), OwnNewId(h0), "var"), LAMBDA h2 :
        LET code_id == OwnNewId(h0)
            var_id == OwnNewId(h1)
            h3 == IF h1.st = "ok" /\ h2.st = "null"
                  THEN OwnForce(h2, OwnOp("free", code_id, 0, "code"))
                  ELSE OwnDo(h2, OwnOp("list_add", var_id, inputs_id, "var"))
        IN  [h3 EXCEPT !.ret = code_id])))

\* the loop over element_inputs: var, a child of code, is added to inputs,
\* and input_var is moved to element_locals
OwnElementInputsLoop(items, j, code_id, inputs_id, element_locals_id, h) ==
    IF j > Len(items) THEN h
    ELSE OwnLet(OwnTry(h), LAMBDA h0 :
         OwnLet(OwnTryAlloc(h0, OwnNewId(h0), code_id, "var"), LAMBDA h1 :
         OwnLet(OwnDo(h1, OwnOp("list_add", OwnNewId(h0), inputs_id, "var")),
                LAMBDA h2 :
         OwnLet(OwnTry(h2), LAMBDA h3 :
         OwnLet(OwnDo(h3, OwnOp("list_add", items[j], element_locals_id,
                                "var")), LAMBDA h4 :
             OwnElementInputsLoop(items, j + 1, code_id, inputs_id,
                                  element_locals_id, h4))))))

\* marshal_array
OwnArray(parent_id, sig, inputs_id, locals_id, h) ==
    OwnLet(OwnTry(h), LAMBDA h0 :
    OwnLet(OwnTryAlloc(h0, OwnNewId(h0), parent_id, "code"), LAMBDA h1 :
    OwnLet(OwnTryAlloc(h1, OwnNewId(h1), OwnNewId(h0), "var"), LAMBDA h2 :
    OwnLet(OwnDo(h2, OwnOp("list_add", OwnNewId(h1), locals_id, "var")),
           LAMBDA h3 :
    OwnLet(OwnTry(h3), LAMBDA h4 :
    OwnLet(OwnDo(h4, OwnOp("list_init", OwnNewList(h4), 0, "list")),
           LAMBDA h5 :
    OwnLet(OwnDo(h5, OwnOp("list_init", OwnNewList(h5), 0, "list")),
           LAMBDA h6 :
    OwnLet(OwnMarshal(0, sig.kids[1], OwnNewList(h4), OwnNewList(h5), h6),
           LAMBDA h7 :
    OwnLet(IF h7.st # "ok" THEN h7
           ELSE OwnElementInputsLoop(h7.heap.lists[OwnNewList(h4)].items, 1,
                                     OwnNewId(h0), inputs_id, OwnNewList(h5),
                                     h7), LAMBDA h8 :
    OwnLet(OwnTry(h8), LAMBDA h9 :
    OwnLet(IF ArrayHasLen(sig.kids[1].kind)
           THEN OwnTryAlloc(h9, OwnNewId(h9), OwnNewId(h0), "var")
           ELSE h9, LAMBDA h10 :
        LET code_id == OwnNewId(h0)
            element_inputs == OwnNewList(h4)
            element_locals == OwnNewList(h5)
            element_block == h7.ret
            len_var == OwnNewId(h9)
            h11 == IF ArrayHasLen(sig.kids[1].kind)
                   THEN OwnDo(h10, OwnOp("list_add", len_var, inputs_id,
                                         "var"))
                   ELSE h10
            \* nih_free (code); return NULL;
            h12 == IF h1.st = "ok" /\ h10.st = "null"
                   THEN OwnForce(h11, OwnOp("free", code_id, 0, "code"))
                   ELSE h11
            \* the return: element_block is nih_local, the lists are on the
            \* stack
            h13 == IF h7.st = "ok"
                   THEN OwnForce(h12, OwnOp("discard", element_block, 0,
                                            "code"))
                   ELSE h12
            h14 == IF h4.st = "ok"
                   THEN OwnForce(OwnForce(h13, OwnOp("release",
                                                     element_locals, 0,
                                                     "list")),
                                 OwnOp("release", element_inputs, 0, "list"))
                   ELSE h13
        IN  [h14 EXCEPT !.ret = code_id])))))))))))

\* the loop over item_locals: each entry is added to locals and gets code
\* as one more parent
OwnItemLocalsLoop(items, j, code_id, locals_id, h) ==
    IF j > Len(items) THEN h
    ELSE OwnLet(OwnDo(h, OwnOp("list_add", items[j], locals_id, "var")),
                LAMBDA h1 :
         OwnLet(OwnDo(h1, OwnOp("ref", items[j], code_id, "var")),
                LAMBDA h2 :
             OwnItemLocalsLoop(items, j + 1, code_id, locals_id, h2)))

OwnItemInputsNotReferenced(items, j, code_id, locals_id, h) ==
    IF j > Len(items) THEN h
    ELSE OwnLet(OwnDo(h, OwnOp("list_add", items[j], locals_id, "var")),
                LAMBDA h1 :
         OwnLet(OwnTry(h1), LAMBDA h3 :
             OwnItemInputsNotReferenced(items, j + 1, code_id, locals_id,
                                        h3)))

\* the loop over item_inputs: the same, and the assignment is added to code
OwnItemInputsLoop(items, j, code_id, locals_id, h) ==
    IF j > Len(items) THEN h
    ELSE OwnLet(OwnDo(h, OwnOp("list_add", items[j], locals_id, "var")),
                LAMBDA h1 :
         OwnLet(OwnDo(h1, OwnOp("ref", items[j], code_id, "var")),
                LAMBDA h2 :
         OwnLet(OwnTry(h2), LAMBDA h3 :
             OwnItemInputsLoop(items, j + 1, code_id, locals_id, h3))))

\* the do ... while loop over the members
OwnStructItemsLoop(kids, k, code_id, locals_id, h) ==
    IF k > Len(kids) \/ h.st # "ok" THEN h
    ELSE OwnLet(OwnTry(h), LAMBDA h0 :
         OwnLet(OwnDo(h0, OwnOp("list_init", OwnNewList(h0), 0, "list")),
                LAMBDA h1 :
         OwnLet(OwnDo(h1, OwnOp("list_init", OwnNewList(h1), 0, "list")),
                LAMBDA h2 :
         OwnLet(OwnMarshal(0, kids[k], OwnNewList(h0), OwnNewList(h1), h2),
                LAMBDA h3 :
         OwnLet(IF h3.st # "ok" THEN h3
                ELSE OwnItemLocalsLoop(h3.heap.lists[OwnNewList(h1)].items,
                                       1, code_id, locals_id, h3),
                LAMBDA h4 :
         OwnLet(IF h4.st # "ok" THEN h4
                ELSE OwnItemInputsLoop(h4.heap.lists[OwnNewList(h0)].items,
                                       1, code_id, locals_id, h4),
                LAMBDA h5 :
         OwnLet(OwnTry(h5), LAMBDA h6 :
             LET item_inputs == OwnNewList(h0)
                 item_locals == OwnNewList(h1)
                 item_code == h3.ret
                 \* nih_free (code); return NULL;
                 h7 == IF h6.st = "null"
                       THEN OwnForce(h6, OwnOp("free", code_id, 0, "code"))
                       ELSE h6
                 \* the end of the block: item_code is nih_local, the lists
                 \* are on the stack
                 h8 == IF h3.st = "ok"
                       THEN OwnForce(h7, OwnOp("discard", item_code, 0,
                                               "code"))
                       ELSE h7
                 h9 == IF h0.st = "ok"
                       THEN OwnForce(OwnForce(h8, OwnOp("release",
                                                        item_locals, 0,
                                                        "list")),
                                     OwnOp("release", item_inputs, 0,
                                           "list"))
                       ELSE h8
             IN  OwnStructItemsLoop(kids, k + 1, code_id, locals_id,
                                    h9))))))))

\* marshal_struct
OwnStruct(parent_id, sig, inputs_id, locals_id, h) ==
    OwnLet(OwnTry(h), LAMBDA h0 :
    OwnLet(OwnTryAlloc(h0, OwnNewId(h0), parent_id, "code"), LAMBDA h1 :
    OwnLet(OwnTryAlloc(h1, OwnNewId(h1), OwnNewId(h0), "var"), LAMBDA h2 :
    OwnLet(IF h1.st = "ok" /\ h2.st = "null"
           THEN OwnForce(h2, OwnOp("free", OwnNewId(h0), 0, "code"))
           ELSE OwnDo(h2, OwnOp("list_add", OwnNewId(h1), locals_id, "var")),
           LAMBDA h3 :
    OwnLet(OwnStructItemsLoop(sig.kids, 1, OwnNewId(h0), locals_id, h3),
           LAMBDA h4 :
    OwnLet(OwnTry(h4), LAMBDA h5 :
    OwnLet(OwnTryAlloc(h5, OwnNewId(h5), OwnNewId(h0), "var"), LAMBDA h6 :
        LET code_id == OwnNewId(h0)
            var_id == OwnNewId(h5)
            h7 == IF h4.st = "ok" /\ h6.st = "null"
                  THEN OwnForce(h6, OwnOp("free", code_id, 0, "code"))
                  ELSE OwnDo(h6, OwnOp("list_add", var_id, inputs_id, "var"))
        IN  [h7 EXCEPT !.ret = code_id])))))))

\* marshal
OwnMarshal(parent_id, sig, inputs_id, locals_id, h) ==
    LET target == Dispatch(dbus_signature_iter_get_current_type(sig))
    IN  IF h.st # "ok" THEN h
        ELSE CASE target = "marshal_basic" ->
                     OwnBasic(parent_id, sig, inputs_id, locals_id, h)
               [] target = "marshal_array" ->
                     OwnArray(parent_id, sig, inputs_id, locals_id, h)
               [] target = "marshal_struct" ->
                     OwnStruct(parent_id, sig, inputs_id, locals_id, h)
               [] OTHER -> [h EXCEPT !.st = "abort"]

(***************************************************************************)
(* The run, one operation on the objects and lists at a time.              *)
(***************************************************************************)
\* the caller's object, the entries its lists hold, its inputs (list 1) and
\* its locals (list 2)
OwnCallerHeap(l) ==
    LET ni == Len(l.inputs)
        nl == Len(l.locals)
    IN  [objs |-> <<[kind |-> "caller", parents |-> {}, live |-> TRUE]>>
                  \o [j \in 1..(ni + nl) |->
                        [kind |-> "var", parents |-> {1}, live |-> TRUE]],
         lists |-> <<[items |-> [j \in 1..ni |-> 1 + j], live |-> TRUE],
                     [items |-> [j \in 1..nl |-> 1 + ni + j], live |-> TRUE]>>]

OwnParent(p) == IF p = "NULL" THEN 0 ELSE 1

InitOwn ==
    /\ pc = "own"
    /\ iter \in Signatures
    /\ iter_name \in IterNames
    /\ name = <<"v">>
    /\ oom_error_code = <<Line("oom", <<<<"return -1;">>>>)>>
    /\ \E l \in CallerLists :
          /\ inputs = l.inputs
          /\ locals = l.locals
          /\ parent = l.parent
          /\ own = OwnCallerHeap(l)
    /\ fail_at \in 0..MaxFailAt
    /\ code = <<>>
    /\ log = <<>>
    /\ old_inputs = inputs
    /\ old_locals = locals
    /\ own_run = LET r == OwnMarshal(OwnParent(parent), iter, 1, 2,
                                     [heap |-> own, ops |-> <<>>, st |-> "ok",
                                      ret |-> 0, n |-> 0, f |-> fail_at])
                 IN  [ops |-> r.ops, st |-> r.st, ret |-> r.ret]
    /\ own_step = 0

OwnNextOp == own_run.ops[own_step + 1]

OwnStep(op) ==
    /\ pc = "own"
    /\ own_step < Len(own_run.ops)
    /\ OwnNextOp.op = op
    /\ own_step' = own_step + 1
    /\ UNCHANGED <<pc, parent, iter, iter_name, name, oom_error_code, inputs,
                   locals, fail_at, code, log, old_inputs, old_locals,
                   own_run>>

NihAlloc ==
    /\ OwnStep("alloc")
    /\ own' = OwnAlloc(own, OwnNextOp.kind, OwnNextOp.arg)

NihListInit ==
    /\ OwnStep("list_init")
    /\ own' = OwnListInit(own)

NihListAdd ==
    /\ OwnStep("list_add")
    /\ own' = OwnListAdd(own, OwnNextOp.id, OwnNextOp.arg)

NihRef ==
    /\ OwnStep("ref")
    /\ own' = OwnRef(own, OwnNextOp.id, OwnNextOp.arg)

NihFree ==
    /\ OwnStep("free")
    /\ own' = OwnFree(own, OwnNextOp.id)

NihDiscard ==
    /\ OwnStep("discard")
    /\ own' = OwnDiscard(own, OwnNextOp.id)

ListScopeEnd ==
    /\ OwnStep("release")
    /\ own' = OwnRelease(own, OwnNextOp.id)

\* marshal () is over: it returned code or NULL, or the process aborted
OwnEnd ==
    /\ pc = "own"
    /\ own_step = Len(own_run.ops)
    /\ pc' = (IF own_run.st = "ok" THEN "own_return"
              ELSE IF own_run.st = "null" THEN "own_null" ELSE "own_abort")
    /\ UNCHANGED <<parent, iter, iter_name, name, oom_error_code, inputs,
                   locals, fail_at, code, log, old_inputs, old_locals, own,
                   own_run, own_step>>

NextOwn ==
    \/ NihAlloc
    \/ NihListInit
    \/ NihListAdd
    \/ NihRef
    \/ NihFree
    \/ NihDiscard
    \/ ListScopeEnd
    \/ OwnEnd

SpecOwn == InitOwn /\ [][NextOwn]_vars

\* the places (list, position) where the object is an entry
OwnPlaces(id) ==
    {p \in UNION {{<<k, j>> : j \in 1..Len(own.lists[k].items)} :
                    k \in 1..Len(own.lists)} :
        own.lists[p[1]].items[p[2]] = id}

\* the entries the run added to the caller's list and left there
OwnAppended(list_id, old) ==
    SubSeq(own.lists[list_id].items, Len(old) + 1,
           Len(own.lists[list_id].items))

\* C12: at every point of the run, over the lists of all the calls (the
\* caller's inputs and locals and the element and item lists of the nested
\* calls), no variable descriptor is an entry of two lists or twice of one;
\* after nih_list_add it is the last entry of the list it was added to (and
\* so of no other, the one it came from included); a list in scope holds
\* only descriptors not freed.  When the top-level call has returned code,
\* code is live, the caller's lists hold what they held followed by as many
\* entries as the call appends, each of them live with code as its one
\* parent, and all the other fragments and descriptors the run allocated
\* are freed and all the element and item lists are out of scope and empty.
C12_DescriptorsInOneListAndLive ==
    /\ own_step <= Len(own_run.ops)
    /\ \A id \in 1..Len(own.objs) : Cardinality(OwnPlaces(id)) <= 1
    /\ (own_step > 0 /\ own_run.ops[own_step].op = "list_add") =>
          LET o == own_run.ops[own_step]
              items == own.lists[o.arg].items
          IN  /\ Len(items) > 0
              /\ items[Len(items)] = o.id
              /\ OwnPlaces(o.id) = {<<o.arg, Len(items)>>}
    /\ \A k \in 1..Len(own.lists) :
          own.lists[k].live =>
              \A j \in 1..Len(own.lists[k].items) :
                  LET id == own.lists[k].items[j]
                  IN  /\ id \in 1..Len(own.objs)
                      /\ own.objs[id].kind = "var"
                      /\ own.objs[id].live
    /\ pc = "own_return" =>
          LET rc == own_run.ret
              alone == Alone(iter, iter_name, name)
              kept == {own.lists[1].items[j] : j \in 1..Len(own.lists[1].items)}
                      \cup
                      {own.lists[2].items[j] : j \in 1..Len(own.lists[2].items)}
              appended == OwnAppended(1, old_inputs) \o OwnAppended(2, old_locals)
          IN  /\ rc \in 1..Len(own.objs)
              /\ own.objs[rc].kind = "code"
              /\ own.objs[rc].live
              /\ own.objs[rc].parents
                    = (IF parent = "NULL" THEN {} ELSE {OwnParent(parent)})
              /\ own.lists[1].live
              /\ own.lists[2].live
              /\ Len(own.lists[1].items) = Len(old_inputs) + Len(alone.inputs)
              /\ Len(own.lists[2].items) = Len(old_locals) + Len(alone.locals)
              /\ SubSeq(own.lists[1].items, 1, Len(old_inputs))
                    = OwnCallerHeap([inputs |-> old_inputs,
                                     locals |-> old_locals]).lists[1].items
              /\ SubSeq(own.lists[2].items, 1, Len(old_locals))
                    = OwnCallerHeap([inputs |-> old_inputs,
                                     locals |-> old_locals]).lists[2].items
              /\ \A j \in 1..Len(appended) :
                    /\ own.objs[appended[j]].live
                    /\ own.objs[appended[j]].parents = {rc}
              /\ \A id \in 1..Len(own.objs) :
                    own.objs[id].live
                        <=> (id = 1 \/ id = rc \/ id \in kept)
              /\ \A k \in 3..Len(own.lists) :
                    /\ ~own.lists[k].live
                    /\ own.lists[k].items = <<>>

\* a struct with an array member has returned into lists that held entries:
\* the member's fragment and another are freed, its lists are out of scope,
\* and its descriptors are among the locals
C12_Witness ==
    /\ pc = "own_return"
    /\ iter.kind = "r"
    /\ \E k \in 1..Len(iter.kids) : iter.kids[k].kind = "a"
    /\ Len(old_locals) = 1
    /\ Len(own.lists) >= 6
    /\ Len(own.lists[2].items) >= 4
    /\ Cardinality({id \in 1..Len(own.objs) :
                      own.objs[id].kind = "code" /\ ~own.objs[id].live}) >= 2

====
